---------------------------- MODULE Spec2Model ----------------------------
(***************************************************************************)
(* A model of aslam::cameras::PinholeProjection<DISTORTION_T>              *)
(* (aslam_cameras/src/pinhole-camera.cc) and of the helpers it is used     *)
(* with.                                                                   *)
(*                                                                         *)
(* Numbers.  A C++ double is modelled as an extended rational <<n, d>>:    *)
(*   n # 0, d > 0, gcd = 1  a finite value n/d                             *)
(*   <<0, 1>>, <<0, -1>>    +0.0, -0.0                                     *)
(*   <<1, 0>>, <<-1, 0>>    +infinity, -infinity                           *)
(*   <<0, 0>>               NaN                                            *)
(* with the IEEE-754 rules for division by zero, for the sign of zero,     *)
(* for arithmetic on infinities and NaN, and for comparisons with NaN      *)
(* (always false).  Rounding is not modelled: finite results are exact.    *)
(***************************************************************************)
EXTENDS Integers, Sequences, FiniteSets, TLC

VARIABLES
  cam,      \* the PinholeProjection object: its fields and its cached temporaries
  rhs,      \* a second PinholeProjection object (the argument of isBinaryEqual)
  archive,  \* the serialization archive: the sequence of fields save() wrote
  last,     \* the last completed call: its name, arguments, return value, outputs
  steps,    \* number of mutator calls made so far (bounds the behaviours)
  writer,   \* the mutator call a second thread is executing: its statements done
  reader    \* the back-projection call a thread is executing: its position, locals

vars == <<cam, rhs, archive, last, steps, writer, reader>>

\* no call is being executed by the thread
NoCall == [op |-> "none"]

---------------------------------------------------------------------------
(* Extended rational arithmetic (the model of double).                     *)

Sign(n) == IF n > 0 THEN 1 ELSE IF n < 0 THEN -1 ELSE 0

Abs(n) == IF n < 0 THEN -n ELSE n

RECURSIVE GCD(_, _)
GCD(a, b) == IF b = 0 THEN a ELSE GCD(b, a % b)

\* the finite nonzero value n/d (d # 0, n # 0), in lowest terms
Reduced(n, d, g) == <<n \div g, d \div g>>

Rat(n, d) ==
  IF d < 0 THEN Reduced(-n, -d, GCD(Abs(n), Abs(d)))
  ELSE Reduced(n, d, GCD(Abs(n), Abs(d)))

R(i) == <<i, 1>>

NaN == <<0, 0>>

IsNaN(a) == a = NaN

IsInf(a) == a[2] = 0 /\ a[1] # 0

IsZero(a) == a[1] = 0 /\ a[2] # 0

IsFinite(a) == a[2] # 0

\* the sign bit of a double: -1 or 1
SignOf(a) == IF a[1] # 0 THEN Sign(a[1]) ELSE IF a[2] < 0 THEN -1 ELSE 1

RNeg(a) == IF a[1] = 0 THEN <<0, -a[2]>> ELSE <<-a[1], a[2]>>

RAbs(a) == IF a[1] = 0 THEN <<0, Abs(a[2])>> ELSE <<Abs(a[1]), a[2]>>

RMul(a, b) ==
  IF IsNaN(a) \/ IsNaN(b) THEN NaN
  ELSE IF IsInf(a) \/ IsInf(b)
       THEN (IF a[1] * b[1] = 0 THEN NaN ELSE <<SignOf(a) * SignOf(b), 0>>)
  ELSE IF a[1] * b[1] = 0 THEN <<0, SignOf(a) * SignOf(b)>>
  ELSE Rat(a[1] * b[1], a[2] * b[2])

RDiv(a, b) ==
  IF IsNaN(a) \/ IsNaN(b) THEN NaN
  ELSE IF IsInf(b) THEN (IF IsInf(a) THEN NaN ELSE <<0, SignOf(a) * SignOf(b)>>)
  ELSE IF IsZero(b) THEN (IF IsZero(a) THEN NaN ELSE <<SignOf(a) * SignOf(b), 0>>)
  ELSE IF IsInf(a) THEN <<SignOf(a) * SignOf(b), 0>>
  ELSE IF IsZero(a) THEN <<0, SignOf(a) * SignOf(b)>>
  ELSE Rat(a[1] * b[2], a[2] * b[1])

\* a + b for finite a and b with denominators da and db (as positive
\* numbers) whose greatest common divisor is g; -0.0 only for -0.0 + -0.0
SumOf(a, b, n, d) ==
  IF n = 0
  THEN (IF a[1] = 0 /\ b[1] = 0 /\ a[2] < 0 /\ b[2] < 0 THEN <<0, -1>> ELSE <<0, 1>>)
  ELSE Rat(n, d)

SumOver(a, b, da, db, g) ==
  SumOf(a, b, a[1] * (db \div g) + b[1] * (da \div g), (da \div g) * db)

RAdd(a, b) ==
  IF IsNaN(a) \/ IsNaN(b) THEN NaN
  ELSE IF IsInf(a) /\ IsInf(b) THEN (IF a[1] = b[1] THEN a ELSE NaN)
  ELSE IF IsInf(a) THEN a
  ELSE IF IsInf(b) THEN b
  ELSE SumOver(a, b, Abs(a[2]), Abs(b[2]), GCD(Abs(a[2]), Abs(b[2])))

RSub(a, b) == RAdd(a, RNeg(b))

\* a < b on doubles: false when either side is NaN
RLt(a, b) ==
  IF IsNaN(a) \/ IsNaN(b) THEN FALSE
  ELSE IF a[2] = 0 /\ b[2] = 0 THEN a[1] < b[1]
  ELSE a[1] * Abs(b[2]) < b[1] * Abs(a[2])

RGt(a, b) == RLt(b, a)

\* a >= b on doubles: false when either side is NaN
RGe(a, b) == ~IsNaN(a) /\ ~IsNaN(b) /\ ~RLt(a, b)

\* a == b on doubles: NaN is not equal to itself, -0.0 is equal to +0.0
REq(a, b) == ~IsNaN(a) /\ ~IsNaN(b) /\ (a = b \/ (IsZero(a) /\ IsZero(b)))

RECURSIVE ISqrtIter(_, _, _)
ISqrtIter(m, lo, hi) ==
  IF lo >= hi THEN lo
  ELSE LET mid == (lo + hi + 1) \div 2
       IN  IF mid * mid <= m THEN ISqrtIter(m, mid, hi) ELSE ISqrtIter(m, lo, mid - 1)

\* the largest k with k*k <= m
ISqrt(m) == ISqrtIter(m, 0, IF m < 46340 THEN m ELSE 46340)

\* the integer part of 64 * n / d for n >= 0 and d > 0, kept within 32 bits
Scaled64(n, d) ==
  IF d < 33554432 THEN (n \div d) * 64 + ((n % d) * 64) \div d
  ELSE (n \div d) * 64 + (n % d) \div (d \div 64)

\* the square root of a finite positive double: exact on squares of
\* rationals, otherwise truncated to a multiple of 1/8
RootOf(n, d, kn, kd, q) ==
  IF kn * kn = n /\ kd * kd = d THEN Rat(kn, kd)
  ELSE IF q = 0 THEN <<0, 1>> ELSE Rat(q, 8)

SqrtValue(x) ==
  IF IsNaN(x) \/ x[1] < 0 THEN NaN
  ELSE IF IsInf(x) \/ IsZero(x) THEN x
  ELSE RootOf(x[1], x[2], ISqrt(x[1]), ISqrt(x[2]), ISqrt(Scaled64(x[1], x[2])))

\* sqrt on doubles: NaN for a negative argument, -0.0 for -0.0; the
\* argument is evaluated to a value before its root is taken
RSqrt(a) == [x \in {a} |-> SqrtValue(x)][a]

\* (int) x for a finite double x: truncation towards zero
Trunc(a) == Sign(a[1]) * (Abs(a[1]) \div Abs(a[2]))

---------------------------------------------------------------------------
(* The distortion model DISTORTION_T.  Its code is not part of the         *)
(* translation unit; it is modelled from its contract: an ordered          *)
(* parameter sequence <<k1, k2>>, distort() a radial polynomial            *)
(* s = 1 + k1 r^2 + k2 r^4 applied to the normalized point, undistort()    *)
(* the iterative inverse (one fixed-point step; the identity when the      *)
(* parameters are neutral), clear() the neutral parameters, isBinaryEqual  *)
(* exact equality of the parameters.                                       *)

DistClear == <<0, 0>>

DistR2(y) == RAdd(RMul(y[1], y[1]), RMul(y[2], y[2]))

DistScaleOf(d, r2) == RAdd(R(1), RAdd(RMul(R(d[1]), r2), RMul(R(d[2]), RMul(r2, r2))))

DistScale(d, y) == DistScaleOf(d, DistR2(y))

DistSlope(d, r2) == RAdd(R(2 * d[1]), RMul(R(4 * d[2]), r2))

Scaled(y, s) == <<RMul(y[1], s), RMul(y[2], s)>>

Unscaled(y, s) == <<RDiv(y[1], s), RDiv(y[2], s)>>

distort(d, y) == IF d = DistClear THEN y ELSE Scaled(y, DistScale(d, y))

DistJacobianOf(y, s, sx, sy) ==
  << <<RAdd(s, RMul(y[1], sx)), RMul(y[1], sy)>>,
     <<RMul(y[2], sx), RAdd(s, RMul(y[2], sy))>> >>

DistJacobianWith(y, s, g) == DistJacobianOf(y, s, RMul(g, y[1]), RMul(g, y[2]))

\* the 2x2 Jacobian of distort with respect to the point, rows <<J00, J01>>, <<J10, J11>>
distortJacobian(d, y) ==
  IF d = DistClear THEN <<<<R(1), R(0)>>, <<R(0), R(1)>>>>
  ELSE DistJacobianWith(y, DistScale(d, y), DistSlope(d, DistR2(y)))

undistort(d, y) == IF d = DistClear THEN y ELSE Unscaled(y, DistScale(d, y))

distortionIsBinaryEqual(d, e) == d = e

\* the Jacobian of y / s(y): entry (i, j) is [i = j] / s - y[i] y[j] g / s^2
UndistJacobianEntry(yi, yj, s, g, diag) ==
  RSub(RDiv(diag, s), RDiv(RMul(RMul(yi, yj), g), RMul(s, s)))

UndistJacobianOf(y, s, g) ==
  << <<UndistJacobianEntry(y[1], y[1], s, g, R(1)), UndistJacobianEntry(y[1], y[2], s, g, R(0))>>,
     <<UndistJacobianEntry(y[2], y[1], s, g, R(0)), UndistJacobianEntry(y[2], y[2], s, g, R(1))>> >>

\* the 2x2 Jacobian undistort writes, that of undistort with respect to the point
undistortJacobian(d, y) ==
  IF d = DistClear THEN <<<<R(1), R(0)>>, <<R(0), R(1)>>>>
  ELSE UndistJacobianOf(y, DistScale(d, y), DistSlope(d, DistR2(y)))

---------------------------------------------------------------------------
(* The camera object.                                                      *)

\* updateTemporaries(): the three cached values computed from fu and fv
updateTemporaries(c) ==
  [c EXCEPT !.recip_fu = RDiv(R(1), c.fu),
            !.recip_fv = RDiv(R(1), c.fv),
            !.fu_over_fv = RDiv(c.fu, c.fv)]

\* the fields as the constructors' initializer lists set them; the caches
\* are uninitialized until updateTemporaries() runs in the constructor body
Fields(fu, fv, cu, cv, ru, rv, d) ==
  [fu |-> fu, fv |-> fv, cu |-> cu, cv |-> cv, ru |-> ru, rv |-> rv,
   dist |-> d, recip_fu |-> NaN, recip_fv |-> NaN, fu_over_fv |-> NaN]

\* PinholeProjection()
DefaultCamera == updateTemporaries(Fields(R(0), R(0), R(0), R(0), 0, 0, DistClear))

\* PinholeProjection(focalLengthU, focalLengthV, imageCenterU, imageCenterV,
\*                   resolutionU, resolutionV, distortion)
NewCamera(fu, fv, cu, cv, ru, rv, d) ==
  updateTemporaries(Fields(fu, fv, cu, cv, ru, rv, d))

isValid_UpperInclusive(c, k) ==
  RGe(k[1], R(0)) /\ RGe(k[2], R(0)) /\ ~RGt(k[1], R(c.ru)) /\ ~RGt(k[2], R(c.rv))

isValid(c, k) ==
  RGe(k[1], R(0)) /\ RGe(k[2], R(0)) /\ RLt(k[1], R(c.ru)) /\ RLt(k[2], R(c.rv))

Normalized(p, rz) == <<RMul(p[1], rz), RMul(p[2], rz)>>

ToPixels(c, n) == <<RAdd(RMul(c.fu, n[1]), c.cu), RAdd(RMul(c.fv, n[2]), c.cv)>>

\* the keypoint euclideanToKeypoint writes: perspective division, distortion,
\* focal length and principal point
Project(c, p) == ToPixels(c, distort(c.dist, Normalized(p, RDiv(R(1), p[3]))))

KeypointResult(c, k, front) == [ret |-> isValid(c, k) /\ front, out |-> k]

euclideanToKeypoint_NoDepthTest(c, p) == KeypointResult(c, Project(c, p), TRUE)

euclideanToKeypoint(c, p) == KeypointResult(c, Project(c, p), RGt(p[3], R(0)))

\* one row of the 2x3 Jacobian: f is fu or fv, jd the matching row of Jd
JacobianRow(f, jd, p, rz, rz2) ==
  <<RMul(RMul(f, jd[1]), rz),
    RMul(RMul(f, jd[2]), rz),
    RMul(RMul(RNeg(f), RAdd(RMul(p[1], jd[1]), RMul(p[2], jd[2]))), rz2)>>

JacobianRows(c, p, rz, Jd) ==
  <<JacobianRow(c.fu, Jd[1], p, rz, RMul(rz, rz)),
    JacobianRow(c.fv, Jd[2], p, rz, RMul(rz, rz))>>

WithJacobian(e, J) == [ret |-> e.ret, out |-> e.out, J |-> J]

\* the overload that also writes the 2x3 Jacobian outJp
euclideanToKeypointJ(c, p) ==
  WithJacobian(
    KeypointResult(c, Project(c, p), RGt(p[3], R(0))),
    JacobianRows(c, p, RDiv(R(1), p[3]),
                 distortJacobian(c.dist, Normalized(p, RDiv(R(1), p[3])))))

Head3(ph) == <<ph[1], ph[2], ph[3]>>

NegHead3(ph) == <<RNeg(ph[1]), RNeg(ph[2]), RNeg(ph[3])>>

Neg4(ph) == <<RNeg(ph[1]), RNeg(ph[2]), RNeg(ph[3]), RNeg(ph[4])>>

homogeneousToKeypoint_NoSign(c, ph) == euclideanToKeypoint(c, Head3(ph))

homogeneousToKeypoint(c, ph) ==
  IF RLt(ph[4], R(0)) THEN euclideanToKeypoint(c, NegHead3(ph))
  ELSE euclideanToKeypoint(c, Head3(ph))

\* J.setZero() on the 2x4 matrix, then the top-left 2x3 block is written
PadJacobian(e) ==
  WithJacobian(e, << <<e.J[1][1], e.J[1][2], e.J[1][3], R(0)>>,
                     <<e.J[2][1], e.J[2][2], e.J[2][3], R(0)>> >>)

\* the overload that also writes the 2x4 Jacobian: it returns before the
\* branch on the sign of ph[3] is reached
homogeneousToKeypointJ(c, ph) == PadJacobian(euclideanToKeypointJ(c, Head3(ph)))

isEuclideanVisible(c, p) == euclideanToKeypoint(c, p).ret

isHomogeneousVisible(c, ph) == homogeneousToKeypoint(c, ph).ret

BackProjection(c, k, n) == [ret |-> isValid(c, k), out |-> <<n[1], n[2], R(1)>>]

keypointToEuclidean_Rederived(c, k) ==
  [ret |-> euclideanToKeypoint(c, BackProjection(c, k,
             undistort(c.dist, <<RDiv(RSub(k[1], c.cu), c.fu),
                                 RDiv(RSub(k[2], c.cv), c.fv)>>)).out).ret,
   out |-> BackProjection(c, k,
             undistort(c.dist, <<RDiv(RSub(k[1], c.cu), c.fu),
                                 RDiv(RSub(k[2], c.cv), c.fv)>>)).out]

keypointToEuclidean(c, k) ==
  BackProjection(c, k, undistort(c.dist, <<RDiv(RSub(k[1], c.cu), c.fu),
                                           RDiv(RSub(k[2], c.cv), c.fv)>>))

\* p[3] = 0.0, then keypointToEuclidean writes the head of p
WithW0(e) == [ret |-> e.ret, out |-> <<e.out[1], e.out[2], e.out[3], R(0)>>]

keypointToHomogeneous(c, k) == WithW0(keypointToEuclidean(c, k))

\* createRandomKeypoint(): rnd is the pair setRandom() drew, each in [-1, 1]
createRandomKeypoint(c, rnd) ==
  <<RMul(RAbs(rnd[1]), R(c.ru)), RMul(RAbs(rnd[2]), R(c.rv))>>

Norm3(p) ==
  RSqrt(RAdd(RMul(p[1], p[1]), RAdd(RMul(p[2], p[2]), RMul(p[3], p[3]))))

\* p /= p.norm(); p *= depth
AtDepth(p, n, depth) ==
  <<RMul(RDiv(p[1], n), depth), RMul(RDiv(p[2], n), depth), RMul(RDiv(p[3], n), depth)>>

Rescaled(p, depth) == AtDepth(p, Norm3(p), depth)

\* createRandomVisiblePoint(depth): rnd as above, u = rand() / RAND_MAX in [0, 1]
createRandomVisiblePoint(c, depth, rnd, u) ==
  Rescaled(keypointToEuclidean(c, createRandomKeypoint(c, rnd)).out,
           IF RLt(depth, R(0)) THEN RMul(u, R(100)) ELSE depth)

isBinaryEqual_NoRu(c, o) ==
  /\ REq(c.fu, o.fu) /\ REq(c.fv, o.fv) /\ REq(c.cu, o.cu) /\ REq(c.cv, o.cv)
  /\ c.rv = o.rv
  /\ REq(c.recip_fu, o.recip_fu) /\ REq(c.recip_fv, o.recip_fv)
  /\ REq(c.fu_over_fv, o.fu_over_fv)
  /\ distortionIsBinaryEqual(c.dist, o.dist)

\* isBinaryEqual(rhs): == on every field, the caches included
isBinaryEqual(c, o) ==
  /\ REq(c.fu, o.fu) /\ REq(c.fv, o.fv) /\ REq(c.cu, o.cu) /\ REq(c.cv, o.cv)
  /\ c.ru = o.ru /\ c.rv = o.rv
  /\ REq(c.recip_fu, o.recip_fu) /\ REq(c.recip_fv, o.recip_fv)
  /\ REq(c.fu_over_fv, o.fu_over_fv)
  /\ distortionIsBinaryEqual(c.dist, o.dist)

---------------------------------------------------------------------------
(* The mutators.                                                           *)

update_StaleRatio(c, v) ==
  [c EXCEPT !.fu = RAdd(c.fu, v[1]), !.fv = RAdd(c.fv, v[2]),
            !.cu = RAdd(c.cu, v[3]), !.cv = RAdd(c.cv, v[4]),
            !.recip_fu = RDiv(R(1), RAdd(c.fu, v[1])),
            !.recip_fv = RDiv(R(1), RAdd(c.fv, v[2]))]

\* update(v): the four intrinsics are perturbed, then the caches are
\* recomputed in place
update(c, v) ==
  [c EXCEPT !.fu = RAdd(c.fu, v[1]), !.fv = RAdd(c.fv, v[2]),
            !.cu = RAdd(c.cu, v[3]), !.cv = RAdd(c.cv, v[4]),
            !.recip_fu = RDiv(R(1), RAdd(c.fu, v[1])),
            !.recip_fv = RDiv(R(1), RAdd(c.fv, v[2])),
            !.fu_over_fv = RDiv(RAdd(c.fu, v[1]), RAdd(c.fv, v[2]))]

getParameters(c) == <<c.fu, c.fv, c.cu, c.cv>>

setParameters(c, P) ==
  updateTemporaries([c EXCEPT !.fu = P[1], !.fv = P[2], !.cu = P[3], !.cv = P[4]])

resizeIntrinsics_Rounded(c, scale) ==
  updateTemporaries([c EXCEPT !.fu = RMul(c.fu, scale), !.fv = RMul(c.fv, scale),
                              !.cu = RMul(c.cu, scale), !.cv = RMul(c.cv, scale),
                              !.ru = Trunc(RAdd(RMul(R(c.ru), scale), RDiv(R(1), R(2)))),
                              !.rv = Trunc(RAdd(RMul(R(c.rv), scale), RDiv(R(1), R(2))))])

\* resizeIntrinsics(scale): _ru and _rv are int, so _ru * scale is converted
\* back to int (truncated)
resizeIntrinsics(c, scale) ==
  updateTemporaries([c EXCEPT !.fu = RMul(c.fu, scale), !.fv = RMul(c.fv, scale),
                              !.cu = RMul(c.cu, scale), !.cv = RMul(c.cv, scale),
                              !.ru = Trunc(RMul(R(c.ru), scale)),
                              !.rv = Trunc(RMul(R(c.rv), scale))])

\* the highest serialization version load() accepts
CLASS_SERIALIZATION_VERSION == 1

\* save(ar, version): the fields in the order they are written
save(c) == <<c.fu, c.fv, c.cu, c.cv, c.ru, c.rv, c.dist>>

load_FvFirst(c, ar, version) ==
  IF version > CLASS_SERIALIZATION_VERSION
  THEN [threw |-> TRUE, cam |-> c]
  ELSE [threw |-> FALSE,
        cam |-> updateTemporaries([c EXCEPT !.fv = ar[1], !.fu = ar[2], !.cu = ar[3],
                                            !.cv = ar[4], !.ru = ar[5], !.rv = ar[6],
                                            !.dist = ar[7]])]

\* load(ar, version): SM_ASSERT_LE throws before anything is read
load(c, ar, version) ==
  IF version > CLASS_SERIALIZATION_VERSION
  THEN [threw |-> TRUE, cam |-> c]
  ELSE [threw |-> FALSE,
        cam |-> updateTemporaries([c EXCEPT !.fu = ar[1], !.fv = ar[2], !.cu = ar[3],
                                            !.cv = ar[4], !.ru = ar[5], !.rv = ar[6],
                                            !.dist = ar[7]])]

\* getBorderRays(rays): the rays of eight pixels on the border of the image
BorderRay(c, x, y) == keypointToHomogeneous(c, <<x, y>>).out

getBorderRays(c) ==
  <<BorderRay(c, R(0), R(0)),
    BorderRay(c, R(0), RMul(R(c.rv), RDiv(R(1), R(2)))),
    BorderRay(c, R(0), RSub(R(c.rv), R(1))),
    BorderRay(c, RSub(R(c.ru), R(1)), R(0)),
    BorderRay(c, RSub(R(c.ru), R(1)), RMul(R(c.rv), RDiv(R(1), R(2)))),
    BorderRay(c, RSub(R(c.ru), R(1)), RSub(R(c.rv), R(1))),
    BorderRay(c, RMul(R(c.ru), RDiv(R(1), R(2))), R(0)),
    BorderRay(c, RMul(R(c.ru), RDiv(R(1), R(2))), RSub(R(c.rv), R(1)))>>

---------------------------------------------------------------------------
(* initializeIntrinsics and its two sub-routines.                          *)
(*                                                                         *)
(* An observation obs is [hasTarget, imCols, imRows, rows, cols, pts,      *)
(* target]: pts[i] = [valid, y] is imagePoint(i) and, with                 *)
(* i = (r-1)*cols + c, imageGridPoint(r, c); target[i] is target.point(i). *)
(* The two external solvers are inputs: ext[r].C is the vector             *)
(* cv::SVD::solveZ returns for row r, ext[r].pose the camera-from-target   *)
(* transformation cv::solvePnP returns for the candidate of row r.         *)
(* A rigid transformation is modelled by its translation <<tx, ty, tz>>.   *)

\* detailPinhole::square and detailPinhole::hypot
square(x) == RMul(x, x)

hypot(a, b) == RSqrt(RAdd(square(a), square(b)))

MIN_CORNERS == 3

\* 0.95, the bound on the direction norm of a non-radial line
RadialLimit == RDiv(R(95), R(100))

\* std::numeric_limits<double>::max(): above every finite mean error; like
\* it, +infinity is not below it
DBL_MAX == <<1, 0>>

TIdentity == <<R(0), R(0), R(0)>>

TInverse(T) == <<RNeg(T[1]), RNeg(T[2]), RNeg(T[3])>>

TApply(T, p) == <<RAdd(p[1], T[1]), RAdd(p[2], T[2]), RAdd(p[3], T[3])>>

imageGridPoint(obs, r, c) == obs.pts[(r - 1) * obs.cols + c]

\* the number of rows of P filled for grid row r
RowCount(obs, r) == Cardinality({c \in 1..obs.cols : imageGridPoint(obs, r, c).valid})

\* getCornersImageFrame / getCornersTargetFrame: the observed corners, in order
RECURSIVE Corners(_, _)
Corners(obs, i) ==
  IF i > Len(obs.pts) THEN <<>>
  ELSE IF obs.pts[i].valid
       THEN <<[M |-> obs.pts[i].y, P |-> obs.target[i]]>> \o Corners(obs, i + 1)
  ELSE Corners(obs, i + 1)

\* the loop that converts the corners to a unit-focal-length view and keeps
\* those that back-project in front of the camera
KeepCorner(bp, P, rest) ==
  IF bp.ret /\ RGt(bp.out[3], R(0))
  THEN <<[M |-> <<RDiv(bp.out[1], bp.out[3]), RDiv(bp.out[2], bp.out[3])>>, P |-> P]>>
       \o rest
  ELSE rest

RECURSIVE CompactCorners(_, _, _)
CompactCorners(c, cs, i) ==
  IF i > Len(cs) THEN <<>>
  ELSE KeepCorner(keypointToEuclidean(c, cs[i].M), cs[i].P, CompactCorners(c, cs, i + 1))

EstimateResult_FewerThanThree(kept, T, solved) ==
  IF Len(kept) < 3
  THEN [ret |-> FALSE, T |-> T, kept |-> kept, solverCalled |-> FALSE]
  ELSE [ret |-> TRUE, T |-> TInverse(solved), kept |-> kept, solverCalled |-> TRUE]

\* estimateTransformation(obs, out_T_t_c): T is the out parameter as the
\* caller passed it, solved what solvePnP returns when it is called
EstimateResult(kept, T, solved) ==
  IF Len(kept) < 4
  THEN [ret |-> FALSE, T |-> T, kept |-> kept, solverCalled |-> FALSE]
  ELSE [ret |-> TRUE, T |-> TInverse(solved), kept |-> kept, solverCalled |-> TRUE]

estimateTransformation(c, obs, T, solved) ==
  EstimateResult(CompactCorners(c, Corners(obs, 1), 1), T, solved)

Norm2(a, b) == RSqrt(RAdd(square(a), square(b)))

AddReprojection_AnyObserved(acc, pt, proj) ==
  IF pt.valid
  THEN [count |-> acc.count + 1,
        err |-> RAdd(acc.err, Norm2(RSub(pt.y[1], proj.out[1]), RSub(pt.y[2], proj.out[2])))]
  ELSE acc

\* one target point: counted when it was observed and projects into the image
AddReprojection(acc, pt, proj) ==
  IF pt.valid /\ proj.ret
  THEN [count |-> acc.count + 1,
        err |-> RAdd(acc.err, Norm2(RSub(pt.y[1], proj.out[1]), RSub(pt.y[2], proj.out[2])))]
  ELSE acc

\* the loop of computeReprojectionError from target point i on
RECURSIVE ReprojectionLoop(_, _, _, _, _)
ReprojectionLoop(c, obs, Tct, i, acc) ==
  IF i > Len(obs.target) THEN acc
  ELSE ReprojectionLoop(c, obs, Tct, i + 1,
         AddReprojection(acc, obs.pts[i],
                         euclideanToKeypoint(c, TApply(Tct, obs.target[i]))))

computeReprojectionError(c, obs, T_target_camera) ==
  ReprojectionLoop(c, obs, TInverse(T_target_camera), 1, [count |-> 0, err |-> R(0)])

\* the quantities derived from the SVD solution C
SvdT(C) == RAdd(RAdd(square(C[1]), square(C[2])), RMul(C[3], C[4]))

SvdD(C) == RSqrt(RDiv(R(1), SvdT(C)))

SvdNx(C) == RMul(C[1], SvdD(C))

SvdNy(C) == RMul(C[2], SvdD(C))

SvdNz(C) == RSqrt(RSub(RSub(R(1), square(SvdNx(C))), square(SvdNy(C))))

SvdGamma(C) == RAbs(RDiv(RMul(C[3], SvdD(C)), SvdNz(C)))

\* the scan state: the camera, the locals gamma0, minReprojErr and success,
\* and a record of what was done with each row
Skip(st, c, why) ==
  [st EXCEPT !.cam = c,
             !.trace = Append(st.trace, [outcome |-> why, gamma |-> NaN, avg |-> NaN])]

Scored_NotStrict(st, c, gamma, rep) ==
  IF rep.count > MIN_CORNERS
  THEN IF ~RGt(RDiv(rep.err, R(rep.count)), st.minReprojErr)
       THEN [cam |-> c, gamma0 |-> gamma, minReprojErr |-> RDiv(rep.err, R(rep.count)),
             success |-> TRUE,
             trace |-> Append(st.trace, [outcome |-> "best", gamma |-> gamma,
                                         avg |-> RDiv(rep.err, R(rep.count))])]
       ELSE [st EXCEPT !.cam = c,
               !.trace = Append(st.trace, [outcome |-> "not better", gamma |-> gamma,
                                           avg |-> RDiv(rep.err, R(rep.count))])]
  ELSE Skip(st, c, "few reprojected")

\* the end of the loop body: the row's mean error against the best so far
Scored(st, c, gamma, rep) ==
  IF rep.count > MIN_CORNERS
  THEN IF RLt(RDiv(rep.err, R(rep.count)), st.minReprojErr)
       THEN [cam |-> c, gamma0 |-> gamma, minReprojErr |-> RDiv(rep.err, R(rep.count)),
             success |-> TRUE,
             trace |-> Append(st.trace, [outcome |-> "best", gamma |-> gamma,
                                         avg |-> RDiv(rep.err, R(rep.count))])]
       ELSE [st EXCEPT !.cam = c,
               !.trace = Append(st.trace, [outcome |-> "not better", gamma |-> gamma,
                                           avg |-> RDiv(rep.err, R(rep.count))])]
  ELSE Skip(st, c, "few reprojected")

Posed(st, c, obs, gamma, est) ==
  IF ~est.ret THEN Skip(st, c, "pose failed")
  ELSE Scored(st, c, gamma, computeReprojectionError(c, obs, est.T))

\* the candidate focal length is written into the camera, then tested
Candidate(st, obs, e, gamma) ==
  Posed(st, updateTemporaries([st.cam EXCEPT !.fu = gamma, !.fv = gamma]), obs, gamma,
        estimateTransformation(updateTemporaries([st.cam EXCEPT !.fu = gamma, !.fv = gamma]),
                               obs, TIdentity, e.pose))

\* one iteration of the loop over the rows
RowStep(st, obs, e, r) ==
  IF ~(RowCount(obs, r) > MIN_CORNERS) THEN Skip(st, st.cam, "few corners")
  ELSE IF RLt(SvdT(e.C), R(0)) THEN Skip(st, st.cam, "bad svd")
  ELSE IF RGt(hypot(SvdNx(e.C), SvdNy(e.C)), RadialLimit) THEN Skip(st, st.cam, "radial")
  ELSE Candidate(st, obs, e, SvdGamma(e.C))

RECURSIVE ScanRows_StopAtSkip(_, _, _, _)
ScanRows_StopAtSkip(st, obs, ext, r) ==
  IF r > obs.rows THEN st
  ELSE IF RowStep(st, obs, ext[r], r).trace[r].outcome \in {"best", "not better"}
       THEN ScanRows_StopAtSkip(RowStep(st, obs, ext[r], r), obs, ext, r + 1)
  ELSE RowStep(st, obs, ext[r], r)

RECURSIVE ScanRows(_, _, _, _)
ScanRows(st, obs, ext, r) ==
  IF r > obs.rows THEN st
  ELSE ScanRows(RowStep(st, obs, ext[r], r), obs, ext, r + 1)

ScanStart(c, obs) ==
  [cam |-> [c EXCEPT !.cu = RDiv(RSub(R(obs.imCols), R(1)), R(2)),
                     !.cv = RDiv(RSub(R(obs.imRows), R(1)), R(2)),
                     !.ru = obs.imCols, !.rv = obs.imRows, !.dist = DistClear],
   gamma0 |-> R(0), minReprojErr |-> DBL_MAX, success |-> FALSE, trace |-> <<>>]

ScanEnd_KeepCandidate(st) ==
  [threw |-> FALSE, ret |-> st.success, cam |-> st.cam, trace |-> st.trace]

ScanEnd(st) ==
  [threw |-> FALSE, ret |-> st.success,
   cam |-> updateTemporaries([st.cam EXCEPT !.fu = st.gamma0, !.fv = st.gamma0]),
   trace |-> st.trace]

\* initializeIntrinsics(observations): only observations[0] is used
initializeIntrinsics(c, observations, ext) ==
  IF Len(observations) = 0 THEN [threw |-> TRUE, ret |-> FALSE, cam |-> c, trace |-> <<>>]
  ELSE IF ~observations[1].hasTarget
       THEN [threw |-> FALSE, ret |-> FALSE, cam |-> c, trace |-> <<>>]
  ELSE ScanEnd(ScanRows(ScanStart(c, observations[1]), observations[1], ext, 1))

---------------------------------------------------------------------------
(* The mutators statement by statement, as a thread executes them while    *)
(* another thread reads the camera, and the Jacobian overload of           *)
(* keypointToEuclidean as that reader.  No member function takes a lock.   *)

\* statement j of updateTemporaries()
updateTemporariesStatement(c, j) ==
  CASE j = 1 -> [c EXCEPT !.recip_fu = RDiv(R(1), c.fu)]
    [] j = 2 -> [c EXCEPT !.recip_fv = RDiv(R(1), c.fv)]
    [] j = 3 -> [c EXCEPT !.fu_over_fv = RDiv(c.fu, c.fv)]

updateStatement_StaleRecip(c, v, i) ==
  CASE i = 1 -> [c EXCEPT !.fu = RAdd(c.fu, v[1])]
    [] i = 2 -> [c EXCEPT !.fv = RAdd(c.fv, v[2])]
    [] i = 3 -> [c EXCEPT !.cu = RAdd(c.cu, v[3])]
    [] i = 4 -> [c EXCEPT !.cv = RAdd(c.cv, v[4])]
    [] i = 5 -> c
    [] i = 6 -> [c EXCEPT !.recip_fv = RDiv(R(1), c.fv)]
    [] i = 7 -> [c EXCEPT !.fu_over_fv = RDiv(c.fu, c.fv)]

\* statement i of update(v), which recomputes the caches itself
updateStatement(c, v, i) ==
  CASE i = 1 -> [c EXCEPT !.fu = RAdd(c.fu, v[1])]
    [] i = 2 -> [c EXCEPT !.fv = RAdd(c.fv, v[2])]
    [] i = 3 -> [c EXCEPT !.cu = RAdd(c.cu, v[3])]
    [] i = 4 -> [c EXCEPT !.cv = RAdd(c.cv, v[4])]
    [] i = 5 -> [c EXCEPT !.recip_fu = RDiv(R(1), c.fu)]
    [] i = 6 -> [c EXCEPT !.recip_fv = RDiv(R(1), c.fv)]
    [] i = 7 -> [c EXCEPT !.fu_over_fv = RDiv(c.fu, c.fv)]

\* statement i of setParameters(P)
setParametersStatement(c, P, i) ==
  CASE i = 1 -> [c EXCEPT !.fu = P[1]]
    [] i = 2 -> [c EXCEPT !.fv = P[2]]
    [] i = 3 -> [c EXCEPT !.cu = P[3]]
    [] i = 4 -> [c EXCEPT !.cv = P[4]]
    [] OTHER -> updateTemporariesStatement(c, i - 4)

\* statement i of resizeIntrinsics(scale)
resizeIntrinsicsStatement(c, scale, i) ==
  CASE i = 1 -> [c EXCEPT !.fu = RMul(c.fu, scale)]
    [] i = 2 -> [c EXCEPT !.fv = RMul(c.fv, scale)]
    [] i = 3 -> [c EXCEPT !.cu = RMul(c.cu, scale)]
    [] i = 4 -> [c EXCEPT !.cv = RMul(c.cv, scale)]
    [] i = 5 -> [c EXCEPT !.ru = Trunc(RMul(R(c.ru), scale))]
    [] i = 6 -> [c EXCEPT !.rv = Trunc(RMul(R(c.rv), scale))]
    [] OTHER -> updateTemporariesStatement(c, i - 6)

\* the next statement of the call w on the camera c
MutatorStatement(w, c) ==
  CASE w.op = "update" -> updateStatement(c, w.arg, w.pc + 1)
    [] w.op = "setParameters" -> setParametersStatement(c, w.arg, w.pc + 1)
    [] w.op = "resizeIntrinsics" -> resizeIntrinsicsStatement(c, w.arg, w.pc + 1)

\* initializeIntrinsics in steps: the initialization, one step per row, and
\* the assignments after the loop; none when it returns at once
InitializeIntrinsicsLength(in) ==
  IF Len(in.observations) = 0 THEN 0
  ELSE IF ~in.observations[1].hasTarget THEN 0
  ELSE in.observations[1].rows + 2

\* the scan state after the next step of the call w
ScanStatement(w, c) ==
  IF w.pc = 0 THEN ScanStart(c, w.arg.observations[1])
  ELSE IF w.pc < w.len - 1
       THEN RowStep(w.st, w.arg.observations[1], w.arg.ext[w.pc], w.pc)
  ELSE w.st

\* one row of J = diag(recip_fu, recip_fv; 0, 0) * Jd
JacobianTimes(a, b, Jd) ==
  <<RAdd(RMul(a, Jd[1][1]), RMul(b, Jd[2][1])),
    RAdd(RMul(a, Jd[1][2]), RMul(b, Jd[2][2]))>>

\* the next statement of keypointToEuclidean(keypoint, outPoint, outJk): rd
\* holds its locals and the values of the fields it has read so far
keypointToEuclideanJStatement(rd, c) ==
  CASE rd.pc = 0 -> [rd EXCEPT !.pc = 1, !.fu = c.fu,
                               !.kp = <<RDiv(RSub(rd.kp[1], c.cu), c.fu), rd.kp[2]>>]
    [] rd.pc = 1 -> [rd EXCEPT !.pc = 2, !.fv = c.fv,
                               !.kp = <<rd.kp[1], RDiv(RSub(rd.kp[2], c.cv), c.fv)>>]
    [] rd.pc = 2 -> [rd EXCEPT !.pc = 3, !.kp = undistort(c.dist, rd.kp),
                               !.Jd = undistortJacobian(c.dist, rd.kp)]
    [] rd.pc = 3 -> [rd EXCEPT !.pc = 4, !.recip_fu = c.recip_fu]
    [] rd.pc = 4 -> [rd EXCEPT !.pc = 5, !.recip_fv = c.recip_fv]

\* its last statements: J *= Jd; return isValid(keypoint)
keypointToEuclideanJReturn(rd, c) ==
  [op |-> "keypointToEuclideanJ", k |-> rd.k, ret |-> isValid(c, rd.k),
   out |-> <<rd.kp[1], rd.kp[2], R(1)>>,
   J |-> <<JacobianTimes(rd.recip_fu, R(0), rd.Jd),
           JacobianTimes(R(0), rd.recip_fv, rd.Jd),
           JacobianTimes(R(0), R(0), rd.Jd)>>,
   fu |-> rd.fu, fv |-> rd.fv, recip_fu |-> rd.recip_fu, recip_fv |-> rd.recip_fv,
   overlapped |-> rd.overlapped, moved |-> rd.moved, before |-> rd.before, after |-> c,
   entered |-> rd.entered]

---------------------------------------------------------------------------
(* PinholeHelpers::intersectCircles.  Its square and hypot are those above. *)
(* The function is declared to return a pointer to a vector and builds the  *)
(* vector ipts as a local: a result is [ipts, dangling], ipts the vector    *)
(* built and dangling whether what is returned is the address of the local, *)
(* which is destroyed on return.  The early returns hand back ipts itself.  *)

\* h < 1e-10: every positive value of the model is above 1e-10 (its
\* denominator is below 10^10), so the test is h <= 0
BelowTouchLimit(h) == RLt(h, R(0)) \/ IsZero(h)

\* a = (square(r1) - square(r2) + square(d)) / (2.0 * d)
CircleA(r1, r2, d) ==
  RDiv(RAdd(RSub(square(r1), square(r2)), square(d)), RMul(R(2), d))

\* h = sqrt(square(r1) - square(a))
CircleH(r1, a) == RSqrt(RSub(square(r1), square(a)))

\* x3 = x1 + a * (x2 - x1) / d, and y3 likewise
CircleFoot(x1, x2, a, d) == RAdd(x1, RDiv(RMul(a, RSub(x2, x1)), d))

\* h * (y2 - y1) / d and h * (x2 - x1) / d
CircleOffset(h, u1, u2, d) == RDiv(RMul(h, RSub(u2, u1)), d)

CirclePoints(x3, y3, h, ox, oy) ==
  IF BelowTouchLimit(h)
  THEN [ipts |-> << <<x3, y3>> >>, dangling |-> FALSE]
  ELSE [ipts |-> << <<RAdd(x3, ox), RSub(y3, oy)>>, <<RSub(x3, ox), RAdd(y3, oy)>> >>,
        dangling |-> TRUE]

CircleChord(x1, y1, x2, y2, d, a, h) ==
  CirclePoints(CircleFoot(x1, x2, a, d), CircleFoot(y1, y2, a, d), h,
               CircleOffset(h, y1, y2, d), CircleOffset(h, x1, x2, d))

IntersectAt(x1, y1, r1, x2, y2, r2, d) ==
  IF RGt(d, RAdd(r1, r2)) THEN [ipts |-> <<>>, dangling |-> FALSE]
  ELSE IF RLt(d, RAbs(RSub(r1, r2))) THEN [ipts |-> <<>>, dangling |-> FALSE]
  ELSE CircleChord(x1, y1, x2, y2, d, CircleA(r1, r2, d), CircleH(r1, CircleA(r1, r2, d)))

intersectCircles(x1, y1, r1, x2, y2, r2) ==
  IntersectAt(x1, y1, r1, x2, y2, r2, hypot(RSub(x1, x2), RSub(y1, y2)))

\* what the caller can find behind the returned pointer: the vector built
\* when it is still alive; when the pointer dangles, also an empty vector, a
\* vector that lost its last point, or points that are not numbers
Dereferenced(res) ==
  IF res.dangling
  THEN {res.ipts, <<>>, <<res.ipts[1]>>, <<res.ipts[1], <<NaN, NaN>>>>}
  ELSE {res.ipts}

---------------------------------------------------------------------------
(* Bounds and input sets.                                                  *)

MaxCoord == 2

MaxRes == 3

Coords == -1..MaxCoord

Points3 == {<<R(x), R(y), R(z)>> : x \in Coords, y \in Coords, z \in Coords}

Points4 == {<<R(x), R(y), R(z), R(w)>> : x \in Coords, y \in Coords, z \in Coords, w \in -1..1}

\* keypoints on the half-pixel grid, from one pixel outside the image on
\* the low side to one pixel outside on the high side
Keypoints == {<<RDiv(R(a), R(2)), RDiv(R(b), R(2))>> : a \in -2..(2 * MaxRes + 2), b \in -2..(2 * MaxRes + 2)}

Distortions == {<<0, 0>>, <<1, 0>>, <<0, 1>>}

\* the values a random draw in [-1, 1] can take, its two extremes included
RandomUnit == {R(-1), RDiv(R(-1), R(2)), R(0), RDiv(R(1), R(2)), R(1)}

\* the values rand() / RAND_MAX in [0, 1] can take, its two extremes included
RandomFraction == {R(0), RDiv(R(1), R(2)), R(1)}

Depths == {R(-1), R(1), R(10)}

\* cameras as the constructors build them
ProjCameras ==
  {DefaultCamera} \cup
  {NewCamera(R(fu), R(fv), RDiv(R(c2), R(2)), R(1), ru, rv, d) :
     fu \in {0, 1, 2}, fv \in {1, 2}, c2 \in {2, 3},
     ru \in {MaxRes}, rv \in {MaxRes - 1, MaxRes}, d \in Distortions}

MaxSteps == 2

MaxRows == 2

\* the fewest columns with which a row can have more than MIN_CORNERS corners
GridCols == MIN_CORNERS + 1

\* cameras at the start of a sequence of mutator calls
LifeCameras ==
  {DefaultCamera,
   NewCamera(R(1), R(1), R(1), R(1), MaxRes, MaxRes, DistClear),
   NewCamera(R(2), R(1), RDiv(R(3), R(2)), R(1), MaxRes, MaxRes - 1, <<1, 0>>)}

\* pairs of cameras to compare are drawn from these
EqCameras ==
  {DefaultCamera} \cup
  {NewCamera(R(fu), R(fv), RDiv(R(cu2), R(2)), RDiv(R(cv2), R(2)), ru, rv, d) :
     fu \in {1, 2}, fv \in {1, 2}, cu2 \in {2, 3}, cv2 \in {2, 3},
     ru \in {MaxRes - 1, MaxRes}, rv \in {MaxRes - 1, MaxRes}, d \in Distortions}

UpdateDeltas ==
  {<<R(1), R(0), R(0), R(0)>>, <<R(0), R(1), R(0), R(0)>>,
   <<R(-1), R(-1), RDiv(R(1), R(2)), R(0)>>}

ParameterMatrices ==
  {<<R(2), R(2), R(1), R(1)>>, <<R(1), R(2), RDiv(R(3), R(2)), R(1)>>,
   <<R(0), R(1), R(1), R(1)>>}

Scales == {RDiv(R(-3), R(2)), RDiv(R(1), R(2)), RDiv(R(3), R(2)), R(2)}

\* solutions of the line fit: focal length 1, focal length 2, t < 0, a
\* radial line, a direction norm of exactly 0.95, and t = 0
Svd ==
  [focal1 |-> <<R(0), R(0), R(2), R(2)>>,
   focal2 |-> <<R(0), R(0), R(4), R(1)>>,
   negative |-> <<R(0), R(0), R(1), R(-1)>>,
   radial |-> <<R(1), R(0), R(0), R(1)>>,
   atLimit |-> <<R(19), R(0), R(39), R(1)>>,
   zero |-> <<R(0), R(0), R(0), R(1)>>]

\* poses of the target, relative to the one that centres it on the optical
\* axis: dx is a sideways shift, tz the distance (negative: behind the camera)
Pose ==
  [at1 |-> [dx |-> 0, tz |-> 1],
   at2 |-> [dx |-> 0, tz |-> 2],
   shifted |-> [dx |-> 1, tz |-> 1],
   behind |-> [dx |-> 0, tz |-> -1]]

\* what can happen to one row: drop says its last corner was not detected
RowChoices ==
  {[drop |-> FALSE, C |-> Svd.focal1, pose |-> q] :
     q \in {Pose.at1, Pose.at2, Pose.shifted, Pose.behind}}
  \cup {[drop |-> FALSE, C |-> Svd.focal2, pose |-> q] : q \in {Pose.at1, Pose.at2}}
  \cup {[drop |-> TRUE, C |-> Svd.focal1, pose |-> Pose.at1]}
  \cup {[drop |-> FALSE, C |-> C, pose |-> Pose.at1] :
          C \in {Svd.negative, Svd.radial, Svd.atLimit, Svd.zero}}

\* rows of an observation whose corners were detected shifted by two pixels,
\* half of them outside the image
ShiftedChoices ==
  {[drop |-> FALSE, C |-> Svd.focal1, pose |-> Pose.at1],
   [drop |-> FALSE, C |-> Svd.focal2, pose |-> Pose.at2]}

LiteChoices ==
  {[drop |-> FALSE, C |-> Svd.focal1, pose |-> Pose.at1],
   [drop |-> FALSE, C |-> Svd.focal2, pose |-> Pose.at1],
   [drop |-> FALSE, C |-> Svd.zero, pose |-> Pose.at1]}

GridRow(i) == ((i - 1) \div GridCols) + 1

GridCol(i) == ((i - 1) % GridCols) + 1

\* a grid of n rows seen in an image GridCols wide and n high: the corner of
\* row r and column c is observed at pixel (c - 1 + shift, r - 1) and lies at
\* (c - 1, r - 1, 0) on the target
MakeObservation(n, ch, shift) ==
  [hasTarget |-> TRUE, imCols |-> GridCols, imRows |-> n, rows |-> n, cols |-> GridCols,
   pts |-> [i \in 1..(n * GridCols) |->
              [valid |-> ~(ch[GridRow(i)].drop /\ GridCol(i) = GridCols),
               y |-> <<R(GridCol(i) - 1 + shift), R(GridRow(i) - 1)>>]],
   target |-> [i \in 1..(n * GridCols) |->
                 <<R(GridCol(i) - 1), R(GridRow(i) - 1), R(0)>>]]

NoTargetObservation ==
  [hasTarget |-> FALSE, imCols |-> GridCols, imRows |-> 1, rows |-> 0, cols |-> 0,
   pts |-> <<>>, target |-> <<>>]

MakePose(n, q) ==
  <<RAdd(RDiv(R(1 - GridCols), R(2)), R(q.dx)), RDiv(R(1 - n), R(2)), R(q.tz)>>

MakeExt(n, ch) == [r \in 1..n |-> [C |-> ch[r].C, pose |-> MakePose(n, ch[r].pose)]]

\* arguments of initializeIntrinsics with what the solvers will answer
InputsOver(choices, shifts, maxRows) ==
  {[observations |-> <<MakeObservation(n, ch, sh)>>, ext |-> MakeExt(n, ch)] :
     <<n, ch, sh>> \in UNION {{<<m, f, x>> : f \in [1..m -> choices], x \in shifts} :
                              m \in 1..maxRows}}
  \cup {[observations |-> <<NoTargetObservation>>, ext |-> <<>>],
        [observations |-> <<>>, ext |-> <<>>]}

InitInputs == InputsOver(RowChoices, {0}, MaxRows) \cup InputsOver(ShiftedChoices, {2}, MaxRows)

LiteInputs == InputsOver(LiteChoices, {0}, 1)

\* observations for the two sub-routines called on their own: every
\* combination of rows with and without their last corner, detected one
\* pixel to the left, in place, or one pixel to the right
PoseObservations ==
  UNION {{MakeObservation(n, ch, sh) :
            ch \in [1..n -> {[drop |-> b] : b \in BOOLEAN}], sh \in {-1, 0, 1}} :
         n \in 1..MaxRows}

Poses == {Pose[k] : k \in DOMAIN Pose}

\* the value of the out parameter before the call
TBefore == <<R(7), R(7), R(7)>>

\* keypoints the reader back-projects
ReaderKeypoints == {<<R(0), RDiv(R(5), R(2))>>}

MaxRadius == 5

\* the writer thread makes at most this many mutator calls
MaxWriterCalls == 1

\* cameras the two threads share at the start
ConcCameras ==
  {DefaultCamera,
   NewCamera(R(2), R(1), RDiv(R(3), R(2)), R(1), MaxRes, MaxRes - 1, DistClear),
   NewCamera(R(1), R(1), R(1), R(1), MaxRes, MaxRes, <<1, 0>>)}

\* the square root of x is a value of the model exactly (NaN included)
ExactRoot(x) == IsNaN(RSqrt(x)) \/ square(RSqrt(x)) = x

\* circles with centres on the corners of a 3 by 4 rectangle; a pair is an
\* input when the roots intersectCircles takes of it are exact
Circles == {<<R(x), R(y), R(r)>> : x \in {0, 3}, y \in {0, 4}, r \in 1..MaxRadius}

CirclePairs ==
  {q \in Circles \X Circles :
     /\ ExactRoot(RAdd(square(RSub(q[1][1], q[2][1])), square(RSub(q[1][2], q[2][2]))))
     /\ ExactRoot(RSub(square(q[1][3]),
                       square(CircleA(q[1][3], q[2][3],
                                      hypot(RSub(q[1][1], q[2][1]), RSub(q[1][2], q[2][2]))))))}

---------------------------------------------------------------------------
(* The const member functions, each as one call on the camera.             *)

\* no call is in progress and the last result has been taken
Idle == [op |-> "idle"]

Call(rec) ==
  /\ last = Idle
  /\ last' = rec
  /\ UNCHANGED <<cam, rhs, archive, steps, writer, reader>>

Returned(rec, e) == Call([rec EXCEPT !.ret = e.ret, !.out = e.out])

ReturnedJ(rec, e) == Call([rec EXCEPT !.ret = e.ret, !.out = e.out, !.J = e.J])

EuclideanToKeypointOp ==
  \E p \in Points3 :
    Returned([op |-> "euclideanToKeypoint", p |-> p, ret |-> FALSE, out |-> <<>>],
             euclideanToKeypoint(cam, p))

EuclideanToKeypointJOp ==
  \E p \in Points3 :
    ReturnedJ([op |-> "euclideanToKeypointJ", p |-> p, ret |-> FALSE, out |-> <<>>,
               J |-> <<>>],
              euclideanToKeypointJ(cam, p))

IsEuclideanVisibleOp ==
  \E p \in Points3 :
    Call([op |-> "isEuclideanVisible", p |-> p, ret |-> isEuclideanVisible(cam, p)])

HomogeneousToKeypointOp ==
  \E ph \in Points4 :
    Returned([op |-> "homogeneousToKeypoint", ph |-> ph, ret |-> FALSE, out |-> <<>>],
             homogeneousToKeypoint(cam, ph))

HomogeneousToKeypointJOp ==
  \E ph \in Points4 :
    ReturnedJ([op |-> "homogeneousToKeypointJ", ph |-> ph, ret |-> FALSE, out |-> <<>>,
               J |-> <<>>],
              homogeneousToKeypointJ(cam, ph))

IsHomogeneousVisibleOp ==
  \E ph \in Points4 :
    Call([op |-> "isHomogeneousVisible", ph |-> ph, ret |-> isHomogeneousVisible(cam, ph)])

IsValidOp ==
  \E k \in Keypoints :
    Call([op |-> "isValid", k |-> k, ret |-> isValid(cam, k)])

KeypointToEuclideanOp ==
  \E k \in Keypoints :
    Returned([op |-> "keypointToEuclidean", k |-> k, ret |-> FALSE, out |-> <<>>],
             keypointToEuclidean(cam, k))

KeypointToHomogeneousOp ==
  \E k \in Keypoints :
    Returned([op |-> "keypointToHomogeneous", k |-> k, ret |-> FALSE, out |-> <<>>],
             keypointToHomogeneous(cam, k))

CreateRandomVisiblePointOp ==
  \E depth \in Depths, r1 \in RandomUnit, r2 \in RandomUnit, u \in RandomFraction :
    Call([op |-> "createRandomVisiblePoint", depth |-> depth, rnd |-> <<r1, r2>>,
          u |-> u, out |-> createRandomVisiblePoint(cam, depth, <<r1, r2>>, u)])

GetBorderRaysOp == Call([op |-> "getBorderRays", rays |-> getBorderRays(cam)])

ReprojectionRecord(obs, T, res) ==
  [op |-> "computeReprojectionError", obs |-> obs, T_target_camera |-> T,
   count |-> res.count, outErr |-> res.err]

ComputeReprojectionErrorOp ==
  \E obs \in PoseObservations, q \in Poses :
    Call(ReprojectionRecord(obs, TInverse(MakePose(obs.rows, q)),
           computeReprojectionError(cam, obs, TInverse(MakePose(obs.rows, q)))))

EstimateRecord(obs, solved, res) ==
  [op |-> "estimateTransformation", obs |-> obs, solved |-> solved, pre |-> cam,
   ret |-> res.ret, T |-> res.T, kept |-> res.kept, solverCalled |-> res.solverCalled]

EstimateTransformationOp ==
  \E obs \in PoseObservations, q \in {Pose.at1, Pose.at2} :
    Call(EstimateRecord(obs, MakePose(obs.rows, q),
           estimateTransformation(cam, obs, TBefore, MakePose(obs.rows, q))))

\* the caller takes the result of the last call
Return ==
  /\ last # Idle
  /\ last' = Idle
  /\ UNCHANGED <<cam, rhs, archive, steps, writer, reader>>

InitProj ==
  /\ cam \in ProjCameras
  /\ rhs = cam
  /\ archive = <<>>
  /\ writer = NoCall
  /\ reader = NoCall
  /\ last = Idle
  /\ steps = 0

NextProj ==
  \/ EuclideanToKeypointOp
  \/ EuclideanToKeypointJOp
  \/ IsEuclideanVisibleOp
  \/ HomogeneousToKeypointOp
  \/ HomogeneousToKeypointJOp
  \/ IsHomogeneousVisibleOp
  \/ IsValidOp
  \/ KeypointToEuclideanOp
  \/ KeypointToHomogeneousOp
  \/ CreateRandomVisiblePointOp
  \/ GetBorderRaysOp
  \/ ComputeReprojectionErrorOp
  \/ EstimateTransformationOp
  \/ Return

\* the projection and validity functions applied to constructed cameras
SpecProj == InitProj /\ [][NextProj]_vars

---------------------------------------------------------------------------
(* The mutators, each as one call on the camera.                           *)

Mutate(c, rec) ==
  /\ last = Idle
  /\ steps < MaxSteps
  /\ cam' = c
  /\ last' = rec
  /\ steps' = steps + 1
  /\ UNCHANGED <<rhs, archive, writer, reader>>

UpdateOp ==
  \E v \in UpdateDeltas :
    Mutate(update(cam, v), [op |-> "update", pre |-> cam, v |-> v])

GetParametersOp == Call([op |-> "getParameters", out |-> getParameters(cam)])

SetParametersOp ==
  \E P \in ParameterMatrices :
    Mutate(setParameters(cam, P), [op |-> "setParameters", pre |-> cam, P |-> P])

ResizeIntrinsicsOp ==
  \E scale \in Scales :
    Mutate(resizeIntrinsics(cam, scale),
           [op |-> "resizeIntrinsics", pre |-> cam, scale |-> scale])

SaveOp ==
  /\ last = Idle
  /\ archive' = save(cam)
  /\ last' = [op |-> "save"]
  /\ UNCHANGED <<cam, rhs, steps, writer, reader>>

LoadOp ==
  /\ archive # <<>>
  /\ \E version \in 0..(CLASS_SERIALIZATION_VERSION + 1) :
       Mutate(load(cam, archive, version).cam,
              [op |-> "load", pre |-> cam, version |-> version,
               threw |-> load(cam, archive, version).threw])

InitializeIntrinsicsRecord(c, in, res) ==
  [op |-> "initializeIntrinsics", pre |-> c, observations |-> in.observations,
   ext |-> in.ext, threw |-> res.threw, ret |-> res.ret, trace |-> res.trace]

InitializeIntrinsicsReturn(in, res) ==
  Mutate(res.cam, InitializeIntrinsicsRecord(cam, in, res))

InitializeIntrinsicsCall(in) ==
  InitializeIntrinsicsReturn(in, initializeIntrinsics(cam, in.observations, in.ext))

InitializeIntrinsicsOp == \E in \in LiteInputs : InitializeIntrinsicsCall(in)

\* lhs.isBinaryEqual(rhs) for the camera and the second camera, in every
\* combination, the camera with itself included
IsBinaryEqualOp ==
  \E l \in {"cam", "rhs"}, r \in {"cam", "rhs"} :
    Call([op |-> "isBinaryEqual", lhs |-> l, rhs |-> r,
          a |-> IF l = "cam" THEN cam ELSE rhs,
          b |-> IF r = "cam" THEN cam ELSE rhs,
          ret |-> isBinaryEqual(IF l = "cam" THEN cam ELSE rhs,
                                IF r = "cam" THEN cam ELSE rhs)])

Init ==
  /\ cam \in LifeCameras
  /\ rhs = cam
  /\ archive = <<>>
  /\ writer = NoCall
  /\ reader = NoCall
  /\ last = Idle
  /\ steps = 0

Next ==
  \/ UpdateOp
  \/ GetParametersOp
  \/ SetParametersOp
  \/ ResizeIntrinsicsOp
  \/ SaveOp
  \/ LoadOp
  \/ InitializeIntrinsicsOp
  \/ IsBinaryEqualOp
  \/ Return

\* a constructed camera under any sequence of at most MaxSteps mutator calls
Spec == Init /\ [][Next]_vars

InitEq ==
  /\ cam \in EqCameras
  /\ rhs \in EqCameras
  /\ archive = <<>>
  /\ writer = NoCall
  /\ reader = NoCall
  /\ last = Idle
  /\ steps = 0

NextEq ==
  \/ IsBinaryEqualOp
  \/ Return

\* two constructed cameras compared with each other
SpecEq == InitEq /\ [][NextEq]_vars

InitializeIntrinsicsFullOp ==
  /\ steps = 0
  /\ \E in \in InitInputs : InitializeIntrinsicsCall(in)

InitInit ==
  /\ cam \in {DefaultCamera,
              NewCamera(R(2), R(1), RDiv(R(3), R(2)), R(1), MaxRes, MaxRes - 1, <<1, 0>>)}
  /\ rhs = cam
  /\ archive = <<>>
  /\ writer = NoCall
  /\ reader = NoCall
  /\ last = Idle
  /\ steps = 0

NextInit ==
  \/ InitializeIntrinsicsFullOp
  \/ Return

\* one initializeIntrinsics call on a constructed camera
SpecInit == InitInit /\ [][NextInit]_vars

---------------------------------------------------------------------------
(* One thread calling mutators, statement by statement, and one thread     *)
(* calling the Jacobian overload of keypointToEuclidean, interleaved.      *)

\* the reader after the writer has acted during its call
Disturbed(rd, entering) ==
  IF rd = NoCall THEN rd
  ELSE [rd EXCEPT !.moved = TRUE, !.overlapped = rd.overlapped \/ entering]

\* the writer enters a mutator; a reader that is inside its call from now
\* on overlaps it
BeginMutator(call) ==
  /\ writer = NoCall
  /\ steps < MaxWriterCalls
  /\ writer' = call
  /\ reader' = Disturbed(reader, TRUE)
  /\ UNCHANGED <<cam, rhs, archive, last, steps>>

UpdateBegin ==
  \E v \in UpdateDeltas : BeginMutator([op |-> "update", arg |-> v, pc |-> 0, len |-> 7])

SetParametersBegin ==
  \E P \in ParameterMatrices :
    BeginMutator([op |-> "setParameters", arg |-> P, pc |-> 0, len |-> 7])

ResizeIntrinsicsBegin ==
  \E scale \in Scales :
    BeginMutator([op |-> "resizeIntrinsics", arg |-> scale, pc |-> 0, len |-> 9])

InitializeIntrinsicsBegin ==
  \E in \in LiteInputs :
    BeginMutator([op |-> "initializeIntrinsics", arg |-> in, pc |-> 0,
                  len |-> InitializeIntrinsicsLength(in), st |-> <<>>])

\* the writer executes the next statement of update, setParameters or
\* resizeIntrinsics
StatementStep ==
  /\ writer.op \in {"update", "setParameters", "resizeIntrinsics"}
  /\ writer.pc < writer.len
  /\ cam' = MutatorStatement(writer, cam)
  /\ writer' = [writer EXCEPT !.pc = writer.pc + 1]
  /\ reader' = Disturbed(reader, FALSE)
  /\ UNCHANGED <<rhs, archive, last, steps>>

\* the writer executes the next step of initializeIntrinsics
InitializeIntrinsicsStep ==
  /\ writer.op = "initializeIntrinsics"
  /\ writer.pc < writer.len
  /\ cam' = IF writer.pc = writer.len - 1 THEN ScanEnd(writer.st).cam
            ELSE ScanStatement(writer, cam).cam
  /\ writer' = [writer EXCEPT !.pc = writer.pc + 1, !.st = ScanStatement(writer, cam)]
  /\ reader' = Disturbed(reader, FALSE)
  /\ UNCHANGED <<rhs, archive, last, steps>>

MutatorReturn ==
  /\ writer # NoCall
  /\ writer.pc = writer.len
  /\ writer' = NoCall
  /\ steps' = steps + 1
  /\ reader' = Disturbed(reader, FALSE)
  /\ UNCHANGED <<cam, rhs, archive, last>>

\* the reader enters keypointToEuclidean(keypoint, outPoint, outJk); before is
\* the camera and entered the writer's position at that moment, overlapped
\* whether a mutator call is in progress at some moment of the call, moved
\* whether the writer acts during it
KeypointToEuclideanJBegin ==
  \E k \in ReaderKeypoints :
    /\ reader = NoCall
    /\ last = Idle
    /\ reader' = [op |-> "keypointToEuclideanJ", k |-> k, pc |-> 0, kp |-> k, Jd |-> <<>>,
                  fu |-> NaN, fv |-> NaN, recip_fu |-> NaN, recip_fv |-> NaN,
                  overlapped |-> writer # NoCall, moved |-> FALSE,
                  before |-> cam, entered |-> writer]
    /\ UNCHANGED <<cam, rhs, archive, last, steps, writer>>

KeypointToEuclideanJStep ==
  /\ reader # NoCall
  /\ reader.pc < 5
  /\ reader' = keypointToEuclideanJStatement(reader, cam)
  /\ UNCHANGED <<cam, rhs, archive, last, steps, writer>>

KeypointToEuclideanJReturn ==
  /\ reader # NoCall
  /\ reader.pc = 5
  /\ last' = keypointToEuclideanJReturn(reader, cam)
  /\ reader' = NoCall
  /\ UNCHANGED <<cam, rhs, archive, steps, writer>>

InitConc ==
  /\ cam \in ConcCameras
  /\ rhs = cam
  /\ archive = <<>>
  /\ writer = NoCall
  /\ reader = NoCall
  /\ last = Idle
  /\ steps = 0

NextConc ==
  \/ UpdateBegin
  \/ SetParametersBegin
  \/ ResizeIntrinsicsBegin
  \/ InitializeIntrinsicsBegin
  \/ StatementStep
  \/ InitializeIntrinsicsStep
  \/ MutatorReturn
  \/ KeypointToEuclideanJBegin
  \/ KeypointToEuclideanJStep
  \/ KeypointToEuclideanJReturn
  \/ Return

\* a thread mutating the camera and a thread back-projecting with it
SpecConc == InitConc /\ [][NextConc]_vars

---------------------------------------------------------------------------
(* The helper, called on pairs of circles.                                 *)

IntersectCirclesOp ==
  \E q \in CirclePairs :
    \E seen \in Dereferenced(intersectCircles(q[1][1], q[1][2], q[1][3],
                                               q[2][1], q[2][2], q[2][3])) :
      Call([op |-> "intersectCircles", c1 |-> q[1], c2 |-> q[2],
            dangling |-> intersectCircles(q[1][1], q[1][2], q[1][3],
                                          q[2][1], q[2][2], q[2][3]).dangling,
            out |-> seen])

InitCircles ==
  /\ cam = DefaultCamera
  /\ rhs = cam
  /\ archive = <<>>
  /\ writer = NoCall
  /\ reader = NoCall
  /\ last = Idle
  /\ steps = 0

NextCircles ==
  \/ IntersectCirclesOp
  \/ Return

\* intersectCircles applied to pairs of circles
SpecCircles == InitCircles /\ [][NextCircles]_vars

---------------------------------------------------------------------------
(* Properties of the projection and validity functions (SpecProj).         *)

\* k is a finite keypoint with 0 <= x < ru and 0 <= y < rv, by integer arithmetic
InImage(c, k) ==
  /\ k[1][2] # 0 /\ k[2][2] # 0
  /\ 0 <= k[1][1] /\ k[1][1] < c.ru * Abs(k[1][2])
  /\ 0 <= k[2][1] /\ k[2][1] < c.rv * Abs(k[2][2])

\* z > 0 for a double z (NaN and both zeros have numerator 0)
InFront(z) == z[1] > 0

\* C1: euclideanToKeypoint(p, out) returns true iff the keypoint it wrote is
\* inside the image and p.z > 0, and false otherwise; the keypoint is written
\* also when it returns false (for a point on the optical axis in front of the
\* camera it is the principal point); isEuclideanVisible(p) returns the same
\* boolean.
C1_EuclideanToKeypointContract ==
  /\ last.op = "euclideanToKeypoint" =>
       /\ last.ret = (InImage(cam, last.out) /\ InFront(last.p[3]))
       /\ last.out = Project(cam, last.p)
       /\ (last.p[1] = R(0) /\ last.p[2] = R(0) /\ InFront(last.p[3]))
            => last.out = <<cam.cu, cam.cv>>
  /\ last.op = "isEuclideanVisible" =>
       last.ret = (InImage(cam, Project(cam, last.p)) /\ InFront(last.p[3]))

\* C1 witness: a point behind the camera whose keypoint was written and
\* lies inside the image, and the call returned false
C1_Witness ==
  /\ last.op = "euclideanToKeypoint"
  /\ ~last.ret
  /\ InImage(cam, last.out)
  /\ last.p[3][1] < 0

\* C2: isValid(k) is true exactly when 0 <= x < ru and 0 <= y < rv; with
\* ru, rv >= 1 the keypoints (0,0) and (ru-1, rv-1) are valid and (-1,0),
\* (-1,-1) and (ru, rv) are not.
C2_IsValidBounds ==
  last.op = "isValid" =>
    /\ last.ret = InImage(cam, last.k)
    /\ (cam.ru >= 1 /\ cam.rv >= 1) =>
         /\ last.k \in {<<R(0), R(0)>>, <<R(cam.ru - 1), R(cam.rv - 1)>>} => last.ret
         /\ last.k \in {<<R(-1), R(0)>>, <<R(-1), R(-1)>>, <<R(cam.ru), R(cam.rv)>>}
              => ~last.ret

\* C2 witness: isValid was asked about the keypoint (ru, rv), just past the
\* last pixel, and said no
C2_Witness ==
  /\ last.op = "isValid"
  /\ cam.ru >= 1 /\ cam.rv >= 1
  /\ last.k = <<R(cam.ru), R(cam.rv)>>
  /\ ~last.ret

Result(l) == [ret |-> l.ret, out |-> l.out]

\* C6: homogeneousToKeypoint without Jacobian projects -ph.xyz when ph.w < 0
\* and ph.xyz otherwise, so for w # 0 the result for ph and for -ph is the
\* same; isHomogeneousVisible returns the same boolean.
C6_HomogeneousSign ==
  /\ last.op = "homogeneousToKeypoint" =>
       /\ Result(last) = euclideanToKeypoint(cam,
             IF last.ph[4][1] < 0 THEN NegHead3(last.ph) ELSE Head3(last.ph))
       /\ last.ph[4][1] # 0 => homogeneousToKeypoint(cam, Neg4(last.ph)) = Result(last)
  /\ last.op = "isHomogeneousVisible" =>
       last.ret = euclideanToKeypoint(cam,
             IF last.ph[4][1] < 0 THEN NegHead3(last.ph) ELSE Head3(last.ph)).ret

\* C6 witness: a point with w < 0 and z < 0 was projected and found visible
C6_Witness ==
  /\ last.op = "homogeneousToKeypoint"
  /\ last.ph[4][1] < 0
  /\ last.ph[3][1] < 0
  /\ last.ret

\* C7: the Jacobian overload of homogeneousToKeypoint returns the same
\* boolean and writes the same keypoint as the overload without Jacobian,
\* for every ph, also with w < 0.
C7_JacobianOverloadAgrees ==
  last.op = "homogeneousToKeypointJ" =>
    Result(last) = homogeneousToKeypoint(cam, last.ph)

\* C8: for fu, fv > 0, ru, rv >= 1 and a positive depth or a negative depth
\* (random depth), the point createRandomVisiblePoint returns is visible,
\* for every value of the random draws; stated for the cameras without
\* distortion, where back-projection is exact.
C8_RandomPointVisible ==
  ( /\ last.op = "createRandomVisiblePoint"
    /\ cam.dist = DistClear
    /\ InFront(cam.fu) /\ InFront(cam.fv)
    /\ cam.ru >= 1 /\ cam.rv >= 1
    /\ last.depth[1] # 0 )
  => euclideanToKeypoint(cam, last.out).ret

\* C11: keypointToEuclidean(keypoint, out) returns whether the input
\* keypoint is inside the image, whatever the undistortion produced (NaN or
\* infinite coordinates included), and always writes a point with z = 1, also
\* when it returns false; keypointToHomogeneous returns the same boolean and
\* writes the same x, y, z followed by w = 0.
C11_BackProjectionContract ==
  /\ last.op = "keypointToEuclidean" =>
       /\ last.ret = InImage(cam, last.k)
       /\ Len(last.out) = 3
       /\ last.out[3] = R(1)
  /\ last.op = "keypointToHomogeneous" =>
       /\ last.ret = InImage(cam, last.k)
       /\ last.out = keypointToEuclidean(cam, last.k).out \o <<R(0)>>
       /\ last.out[3] = R(1)

\* C11 witness: a keypoint outside the image was back-projected to a
\* direction: the call returned false and wrote a finite point with z = 1 and
\* w = 0, which projects back into the image because of the distortion
C11_Witness ==
  /\ last.op = "keypointToHomogeneous"
  /\ ~last.ret
  /\ last.out[3] = R(1) /\ last.out[4] = R(0)
  /\ IsFinite(last.out[1]) /\ IsFinite(last.out[2])
  /\ cam.dist = <<1, 0>>
  /\ euclideanToKeypoint(cam, Head3(last.out)).ret

\* target point i was observed
Observed(obs, i) == obs.pts[i].valid

\* target point i, moved into the camera frame by the inverse of T, lies in
\* front of the camera and its projection lies inside the image
Reprojects(c, obs, T, i) ==
  /\ InFront(TApply(TInverse(T), obs.target[i])[3])
  /\ InImage(c, Project(c, TApply(TInverse(T), obs.target[i])))

\* the pixel distance between the observed corner i and its projection
PixelError(c, obs, T, i) ==
  RSqrt(RAdd(
    RMul(RSub(obs.pts[i].y[1], Project(c, TApply(TInverse(T), obs.target[i]))[1]),
         RSub(obs.pts[i].y[1], Project(c, TApply(TInverse(T), obs.target[i]))[1])),
    RMul(RSub(obs.pts[i].y[2], Project(c, TApply(TInverse(T), obs.target[i]))[2]),
         RSub(obs.pts[i].y[2], Project(c, TApply(TInverse(T), obs.target[i]))[2]))))

\* the sum of the pixel errors of the points 1..i that are observed and reproject
RECURSIVE UsedError(_, _, _, _)
UsedError(c, obs, T, i) ==
  IF i = 0 THEN R(0)
  ELSE IF Observed(obs, i) /\ Reprojects(c, obs, T, i)
       THEN RAdd(UsedError(c, obs, T, i - 1), PixelError(c, obs, T, i))
  ELSE UsedError(c, obs, T, i - 1)

\* C16 as stated: the count computeReprojectionError returns is the number
\* of target points with a valid observation.
C16_CountsEveryObservedPoint ==
  last.op = "computeReprojectionError" =>
    last.count = Cardinality({i \in DOMAIN last.obs.target : Observed(last.obs, i)})

\* C16: computeReprojectionError starts the error at 0 and, for every target
\* point that has a valid observation and whose projection succeeds (the
\* point is in front of the camera and projects inside the image), adds the
\* pixel distance between the observed corner and the projection and counts
\* the point: the count is the number of such points, the error their sum.
C16_CountsObservedAndReprojected ==
  last.op = "computeReprojectionError" =>
    /\ last.count =
         Cardinality({i \in DOMAIN last.obs.target :
                        Observed(last.obs, i)
                        /\ Reprojects(cam, last.obs, last.T_target_camera, i)})
    /\ last.outErr =
         UsedError(cam, last.obs, last.T_target_camera, Len(last.obs.target))

\* C16 witness: of the observed points some were counted, with a positive
\* error, and some were not, because they project outside the image
C16_Witness ==
  /\ last.op = "computeReprojectionError"
  /\ last.count > 0
  /\ last.count < Cardinality({i \in DOMAIN last.obs.target : Observed(last.obs, i)})
  /\ RGt(last.outErr, R(0))
  /\ \E i \in DOMAIN last.obs.target :
       /\ Observed(last.obs, i)
       /\ InFront(TApply(TInverse(last.T_target_camera), last.obs.target[i])[3])
       /\ ~Reprojects(cam, last.obs, last.T_target_camera, i)

\* the observed corner cr back-projects validly to a point in front of the camera
BackProjects(c, cr) ==
  keypointToEuclidean(c, cr.M).ret /\ InFront(keypointToEuclidean(c, cr.M).out[3])

\* the corners that back-project, in their order, each with its image point
\* replaced by the back-projection divided by its depth
KeptOf(c, sel) ==
  [j \in 1..Len(sel) |->
     [M |-> <<RDiv(keypointToEuclidean(c, sel[j].M).out[1],
                   keypointToEuclidean(c, sel[j].M).out[3]),
              RDiv(keypointToEuclidean(c, sel[j].M).out[2],
                   keypointToEuclidean(c, sel[j].M).out[3])>>,
      P |-> sel[j].P]]

ExpectedKept(c, obs) ==
  KeptOf(c, SelectSeq(Corners(obs, 1), LAMBDA cr : BackProjects(c, cr)))

\* C17: estimateTransformation keeps, in their order and paired, exactly the
\* correspondences whose image point back-projects validly in front of the
\* camera; with fewer than 4 of them it returns false, does not call the
\* pose solver and leaves the output transformation as it was; the camera is
\* not modified.
C17_EstimateTransformationContract ==
  last.op = "estimateTransformation" =>
    /\ last.kept = ExpectedKept(cam, last.obs)
    /\ Len(last.kept) < 4 =>
         (~last.ret /\ ~last.solverCalled /\ last.T = TBefore)
    /\ cam = last.pre

\* C17 witness: four corners were observed, one of them outside the image;
\* the three others were kept and the call returned false without a pose
C17_Witness ==
  /\ last.op = "estimateTransformation"
  /\ Len(Corners(last.obs, 1)) = 4
  /\ Len(last.kept) = 3
  /\ ~last.ret /\ ~last.solverCalled
  /\ last.T = TBefore
  /\ IsFinite(last.kept[1].M[1])

---------------------------------------------------------------------------
(* Properties of intersectCircles (SpecCircles).  The circles have integer *)
(* centres and radii, so the cases are told apart by integer arithmetic on *)
(* the squared distance of the centres.                                    *)

CentreDistance2(c1, c2) ==
  (c1[1][1] - c2[1][1]) * (c1[1][1] - c2[1][1])
    + (c1[2][1] - c2[2][1]) * (c1[2][1] - c2[2][1])

\* d > r1 + r2
Disjoint(c1, c2) ==
  CentreDistance2(c1, c2) > (c1[3][1] + c2[3][1]) * (c1[3][1] + c2[3][1])

\* d < |r1 - r2|
Nested(c1, c2) ==
  CentreDistance2(c1, c2) < (c1[3][1] - c2[3][1]) * (c1[3][1] - c2[3][1])

\* d = r1 + r2 or d = |r1 - r2|
Tangent(c1, c2) ==
  \/ CentreDistance2(c1, c2) = (c1[3][1] + c2[3][1]) * (c1[3][1] + c2[3][1])
  \/ CentreDistance2(c1, c2) = (c1[3][1] - c2[3][1]) * (c1[3][1] - c2[3][1])

OnCircle(p, c) ==
  REq(RAdd(RMul(RSub(p[1], c[1]), RSub(p[1], c[1])),
           RMul(RSub(p[2], c[2]), RSub(p[2], c[2]))),
      RMul(c[3], c[3]))

\* C14: intersectCircles returns no point exactly when the circles are
\* disjoint or nested, one point when they are tangent and otherwise two
\* points, and every point returned lies on both circles, for every pair of
\* circles with positive radii, circles with the same centre included.
C14_IntersectCirclesContract ==
  last.op = "intersectCircles" =>
    /\ Len(last.out) = IF Disjoint(last.c1, last.c2) \/ Nested(last.c1, last.c2) THEN 0
                       ELSE IF Tangent(last.c1, last.c2) THEN 1 ELSE 2
    /\ \A i \in 1..Len(last.out) :
         OnCircle(last.out[i], last.c1) /\ OnCircle(last.out[i], last.c2)

---------------------------------------------------------------------------
(* Properties of the mutators (Spec) and of the comparison (SpecEq).       *)

\* C3: whenever a constructor or one of update, setParameters,
\* resizeIntrinsics, load and initializeIntrinsics has returned, the cached
\* values are 1/fu, 1/fv and fu/fv of the current fu and fv (as doubles: for
\* fu = fv = 0 the quotient fu/fv is NaN and so is the cache).
C3_CachesFresh ==
  /\ cam.recip_fu = RDiv(R(1), cam.fu)
  /\ cam.recip_fv = RDiv(R(1), cam.fv)
  /\ cam.fu_over_fv = RDiv(cam.fu, cam.fv)

\* C3 witness: update has returned having changed fu and the ratio fu/fv
C3_Witness ==
  /\ last.op = "update"
  /\ cam.fu # last.pre.fu
  /\ cam.fu_over_fv # last.pre.fu_over_fv
  /\ IsFinite(cam.fu_over_fv)

\* C9: camera.isBinaryEqual(camera) returns true for every camera reachable
\* from a constructor, the default constructor included, by update,
\* setParameters, resizeIntrinsics and initializeIntrinsics calls.
C9_Reflexive ==
  (last.op = "isBinaryEqual" /\ last.lhs = last.rhs) => last.ret

\* two cameras differ in a field that isBinaryEqual is said to look at
Differ(a, b) ==
  \/ ~REq(a.fu, b.fu) \/ ~REq(a.fv, b.fv)
  \/ ~REq(a.cu, b.cu) \/ ~REq(a.cv, b.cv)
  \/ a.ru # b.ru \/ a.rv # b.rv
  \/ \E i \in 1..Len(a.dist) : a.dist[i] # b.dist[i]

\* C10: two cameras that differ in one of fu, fv, cu, cv, ru, rv or in a
\* distortion parameter are not isBinaryEqual, whichever of the two is asked.
C10_DifferentCamerasUnequal ==
  (last.op = "isBinaryEqual" /\ Differ(last.a, last.b)) =>
    /\ ~last.ret
    /\ ~isBinaryEqual(last.b, last.a)

\* C10 witness: two cameras that differ in the horizontal resolution only
\* were compared and found unequal
C10_Witness ==
  /\ last.op = "isBinaryEqual"
  /\ last.a.ru # last.b.ru
  /\ [last.a EXCEPT !.ru = last.b.ru] = last.b
  /\ ~last.ret

\* n is the integer part of r * s, the product truncated toward zero, by
\* integer arithmetic on the numerator and denominator of the finite scale s
IntegerPartOfProduct(n, r, s) ==
  /\ Abs(n) * s[2] <= Abs(r * s[1])
  /\ Abs(r * s[1]) < (Abs(n) + 1) * s[2]
  /\ n # 0 => Sign(n) = Sign(r * s[1])

\* C12 as stated: after resizeIntrinsics(scale) each of fu, fv, cu, cv, ru
\* and rv is its value before the call multiplied by scale, for every scale
\* and every integer resolution, and the caches are those of the new fu, fv.
C12_ResizeMultiplies ==
  last.op = "resizeIntrinsics" =>
    /\ cam.fu = RMul(last.pre.fu, last.scale)
    /\ cam.fv = RMul(last.pre.fv, last.scale)
    /\ cam.cu = RMul(last.pre.cu, last.scale)
    /\ cam.cv = RMul(last.pre.cv, last.scale)
    /\ R(cam.ru) = RMul(R(last.pre.ru), last.scale)
    /\ R(cam.rv) = RMul(R(last.pre.rv), last.scale)
    /\ cam.recip_fu = RDiv(R(1), cam.fu)
    /\ cam.recip_fv = RDiv(R(1), cam.fv)
    /\ cam.fu_over_fv = RDiv(cam.fu, cam.fv)

\* C12: after resizeIntrinsics(scale) each of fu, fv, cu and cv is its
\* value before the call multiplied by scale; ru and rv, which are integers,
\* are the integer parts of their products with scale (truncated toward
\* zero), equal to the product only when it is an integer; the caches are
\* those of the new fu and fv.
C12_ResizeTruncatesResolution ==
  last.op = "resizeIntrinsics" =>
    /\ cam.fu = RMul(last.pre.fu, last.scale)
    /\ cam.fv = RMul(last.pre.fv, last.scale)
    /\ cam.cu = RMul(last.pre.cu, last.scale)
    /\ cam.cv = RMul(last.pre.cv, last.scale)
    /\ IntegerPartOfProduct(cam.ru, last.pre.ru, last.scale)
    /\ IntegerPartOfProduct(cam.rv, last.pre.rv, last.scale)
    /\ cam.recip_fu = RDiv(R(1), cam.fu)
    /\ cam.recip_fv = RDiv(R(1), cam.fv)
    /\ cam.fu_over_fv = RDiv(cam.fu, cam.fv)
    /\ cam.dist = last.pre.dist

\* C12 witness: an image three pixels wide was resized by 1/2: the principal
\* point was halved exactly and the width became 1, not 3/2
C12_Witness ==
  /\ last.op = "resizeIntrinsics"
  /\ last.scale = RDiv(R(1), R(2))
  /\ last.pre.ru = 3 /\ cam.ru = 1
  /\ IsFinite(last.pre.cu) /\ ~IsZero(last.pre.cu)
  /\ cam.cu = RDiv(last.pre.cu, R(2))

\* C13: load with a version above CLASS_SERIALIZATION_VERSION raises an
\* error and leaves every field, the distortion and the caches as they were;
\* with a supported version it reads the fields in the order save wrote them
\* (saving the camera again would write the same archive) and the caches are
\* those of the fu and fv read.
C13_LoadContract ==
  last.op = "load" =>
    IF last.version > CLASS_SERIALIZATION_VERSION
    THEN last.threw /\ cam = last.pre
    ELSE /\ ~last.threw
         /\ <<cam.fu, cam.fv, cam.cu, cam.cv, cam.ru, cam.rv, cam.dist>> = archive
         /\ cam.recip_fu = RDiv(R(1), cam.fu)
         /\ cam.recip_fv = RDiv(R(1), cam.fv)
         /\ cam.fu_over_fv = RDiv(cam.fu, cam.fv)

\* C13 witness: a camera with fu # fv was saved, then changed, and a load
\* with a supported version brought the saved fields back
C13_Witness ==
  /\ last.op = "load"
  /\ ~last.threw
  /\ cam # last.pre
  /\ cam.fu # cam.fv
  /\ IsFinite(cam.fu_over_fv)

---------------------------------------------------------------------------
(* Properties of initializeIntrinsics (SpecInit), stated for the call      *)
(* recorded in last from its arguments: rows are re-examined one by one,   *)
(* independently of the scan.                                              *)

InitCalled == last.op = "initializeIntrinsics" /\ ~last.threw

HasTarget == InitCalled /\ last.observations[1].hasTarget

RowsOf(l) == 1..l.observations[1].rows

\* the camera with which the candidate of row r is tested
RowCamera(l, r) ==
  updateTemporaries([ScanStart(l.pre, l.observations[1]).cam
                       EXCEPT !.fu = SvdGamma(l.ext[r].C), !.fv = SvdGamma(l.ext[r].C)])

\* row r has enough valid corners, t >= 0, a direction norm <= 0.95, and
\* its pose estimation succeeds; score is its reprojection count and error
RowEntryOf(l, r, pose, score) ==
  [passes |-> /\ RowCount(l.observations[1], r) > MIN_CORNERS
              /\ RGe(SvdT(l.ext[r].C), R(0))
              /\ RGe(RadialLimit, hypot(SvdNx(l.ext[r].C), SvdNy(l.ext[r].C)))
              /\ pose.ret,
   count |-> score.count,
   mean |-> RDiv(score.err, R(score.count))]

RowPosed(l, r, c, pose) ==
  RowEntryOf(l, r, pose, computeReprojectionError(c, l.observations[1], pose.T))

RowEntry(l, r, c) ==
  RowPosed(l, r, c, estimateTransformation(c, l.observations[1], TIdentity, l.ext[r].pose))

\* every row of the observation examined on its own
RowTable(l) == [r \in RowsOf(l) |-> RowEntry(l, r, RowCamera(l, r))]

RowPasses(e) == e.passes

\* the row passes and more than MIN_CORNERS of its target points reproject
\* into the image, with a mean error below the largest double
RowAccepted(e) == e.passes /\ e.count > MIN_CORNERS /\ RLt(e.mean, DBL_MAX)

\* row i is the first of the accepted rows with the least mean error
FirstBest(tab, i) ==
  /\ RowAccepted(tab[i])
  /\ \A j \in DOMAIN tab : RowAccepted(tab[j]) =>
       /\ ~RLt(tab[j].mean, tab[i].mean)
       /\ j < i => RLt(tab[i].mean, tab[j].mean)

BestRowWins(l, c, tab) ==
  \E i \in DOMAIN tab :
    /\ FirstBest(tab, i)
    /\ c.fu = SvdGamma(l.ext[i].C)
    /\ c.fv = SvdGamma(l.ext[i].C)

TieWonByFirst(l, c, tab) ==
  /\ RowAccepted(tab[1]) /\ RowAccepted(tab[2])
  /\ REq(tab[1].mean, tab[2].mean)
  /\ ~REq(SvdGamma(l.ext[1].C), SvdGamma(l.ext[2].C))
  /\ c.fu = SvdGamma(l.ext[1].C)

FalseOnlyIfNoRowAccepted(l, tab) ==
  /\ ~l.ret => \A r \in DOMAIN tab : ~RowAccepted(tab[r])
  /\ (\E r \in DOMAIN tab : RowAccepted(tab[r])) => l.ret
  /\ Len(l.trace) = l.observations[1].rows

\* C4: when initializeIntrinsics returns true, fu = fv = the gamma of the
\* accepted row with the least mean reprojection error, and of the rows
\* that share the least error the one with the lowest index.
C4_BestRowWins ==
  (InitCalled /\ last.ret) => BestRowWins(last, cam, RowTable(last))

\* C4 witness: the first two rows are accepted with the same mean error and
\* different candidates, and the call returned true with the first one
C4_Witness ==
  /\ InitCalled /\ last.ret
  /\ last.observations[1].rows >= 2
  /\ TieWonByFirst(last, cam, RowTable(last))

\* C5 as stated: on an observation with a target initializeIntrinsics
\* returns false only if no row has enough valid corners, t >= 0, a
\* direction norm <= 0.95 and a successful pose estimation.
C5_FalseOnlyIfNoRowPasses ==
  (HasTarget /\ ~last.ret) => \A r \in RowsOf(last) : ~RowPasses(RowTable(last)[r])

\* C5: on an observation with a target initializeIntrinsics returns false
\* only if no row is accepted, a row being accepted when it has enough valid
\* corners, t >= 0, a direction norm <= 0.95, a successful pose estimation
\* and, in addition, more than MIN_CORNERS reprojected target points; a
\* rejected row does not end the scan: every row is examined, and an
\* accepted row after a rejected one still makes the call return true.
C5_FalseOnlyIfNoRowAccepted ==
  HasTarget => FalseOnlyIfNoRowAccepted(last, RowTable(last))

\* C5 witness: the first row was rejected as radial, the scan went on to the
\* second row, which passed pose estimation but had too few reprojected
\* points, and the call returned false
C5_Witness ==
  /\ HasTarget /\ ~last.ret
  /\ last.observations[1].rows >= 2
  /\ last.trace[1].outcome = "radial"
  /\ RowPasses(RowTable(last)[2])
  /\ ~RowAccepted(RowTable(last)[2])

\* the number of corners of grid row r that were detected
ValidCorners(obs, r) ==
  Cardinality({i \in DOMAIN obs.pts : obs.pts[i].valid /\ ((i - 1) \div obs.cols) + 1 = r})

\* C15: a grid row is skipped for having too few corners exactly when it
\* has fewer than 3 valid corners; every row with 3 or more valid corners
\* proceeds to the line fit.
C15_SkippedBelowThreeCorners ==
  HasTarget =>
    \A r \in RowsOf(last) :
      (last.trace[r].outcome = "few corners") <=> (ValidCorners(last.observations[1], r) < 3)

\* C18: when initializeIntrinsics returns after scanning the rows, fu = fv,
\* and their value is the gamma of an accepted row when the call returns
\* true and 0 when it returns false, so the candidate a rejected row wrote
\* into fu and fv does not remain; when the observation has no target the
\* call returns false and the camera is unchanged.
C18_FinalFocalLength ==
  InitCalled =>
    IF last.observations[1].hasTarget
    THEN /\ cam.fu = cam.fv
         /\ last.ret => \E r \in RowsOf(last) :
                          /\ RowAccepted(RowTable(last)[r])
                          /\ cam.fu = SvdGamma(last.ext[r].C)
         /\ ~last.ret => cam.fu = R(0)
    ELSE /\ ~last.ret
         /\ cam = last.pre

\* C18 witness: the camera had fu = 2; the only candidate, 1, was written
\* into it and tested, its row was rejected for its reprojections, and the
\* call returned false with fu = fv = 0
C18_Witness ==
  /\ HasTarget /\ ~last.ret
  /\ last.pre.fu = R(2)
  /\ \E r \in RowsOf(last) :
       /\ last.trace[r].outcome = "few reprojected"
       /\ SvdGamma(last.ext[r].C) = R(1)
  /\ cam.fu = R(0) /\ cam.fv = R(0)

\* a call of the Jacobian overload of keypointToEuclidean has returned
ReaderReturned == last.op = "keypointToEuclideanJ"

\* the reader's whole call ran while update stood after its statement lo and
\* before its recomputation of the reciprocals
RanInsideUpdate(lo) ==
  /\ ReaderReturned /\ ~last.moved
  /\ last.entered # NoCall
  /\ last.entered.op = "update"
  /\ last.entered.pc \in lo..4

\* C19: no member function is synchronized.  A back-projection that runs
\* between update's write of fu and its recomputation of the reciprocals
\* reads the new fu and the old recip_fu, so when the increment of fu is
\* not 0 it observes recip_fu # 1/fu, and likewise for fv and recip_fv; a
\* back-projection that no call of update, setParameters, resizeIntrinsics
\* or initializeIntrinsics overlaps observes recip_fu = 1/fu and
\* recip_fv = 1/fv and leaves the camera as it found it.
C19_TornOnlyUnderOverlap ==
  /\ (RanInsideUpdate(1) /\ last.entered.arg[1] # R(0)) =>
       /\ last.fu = last.before.fu
       /\ last.recip_fu = last.before.recip_fu
       /\ last.recip_fu # RDiv(R(1), last.fu)
  /\ (RanInsideUpdate(2) /\ last.entered.arg[2] # R(0)) =>
       last.recip_fv # RDiv(R(1), last.fv)
  /\ (ReaderReturned /\ ~last.overlapped) =>
       /\ last.recip_fu = RDiv(R(1), last.fu)
       /\ last.recip_fv = RDiv(R(1), last.fv)
       /\ last.after = last.before

\* C19 witness: update had added 1 to fu = 2 and not yet recomputed the
\* reciprocals when the reader entered, the reader returned before update's
\* next statement, and it read fu = 3 with recip_fu = 1/2
C19_Witness ==
  /\ RanInsideUpdate(1)
  /\ writer = last.entered
  /\ last.entered.arg[1] = R(1)
  /\ last.fu = R(3)
  /\ last.recip_fu = RDiv(R(1), R(2))
  /\ last.recip_fu # RDiv(R(1), last.fu)
  /\ cam.recip_fu # RDiv(R(1), cam.fu)

=============================================================================
